---- MODULE Spec2Model ----
(***************************************************************************)
(* Homegrown auth server with Descope MFA: the login / callback handlers   *)
(* of the four server programs of the repository, as a state machine over  *)
(* request slots.  A slot holds one HTTP request: its inputs, the locals   *)
(* of its handler, the provider calls it made and its response.  Handlers  *)
(* are cut at their await points; the provider's answers are inputs.       *)
(***************************************************************************)
EXTENDS Naturals, Sequences, FiniteSets, TLC

VARIABLES server, env, req, gateAccepted, now, zeroKeyOk, browser

vars == <<server, env, req, gateAccepted, now, zeroKeyOk, browser>>

(* ------------------------------------------------------------------------ *)
(* Bounds and value domains                                                 *)
(* ------------------------------------------------------------------------ *)

\* number of requests of a run; they are numbered in their order of arrival
\* and any number of them can be in flight at the same time
MaxReq == 2

Slots == 1..MaxReq

\* JavaScript values that are not (non-empty) strings
Undefined == "<undefined>"
NonString == "<non-string>"

\* truthiness of a query / body / env value: undefined and '' are falsy
Truthy(v) == v \notin {Undefined, ""}

\* typeof v === 'string'
IsString(v) == v \notin {Undefined, NonString}

\* `${v}` in a template literal
Str(v) == IF v = Undefined THEN "undefined" ELSE v

\* the four server programs of the repository
MFAServers == {"api", "express"}
HomegrownServers == {"before", "router"}
Servers == MFAServers \cup HomegrownServers

\* process.env: each variable is set or unset
Envs ==
  [ DESCOPE_PROJECT_ID : {Undefined, "P2abc"},
    DESCOPE_MANAGEMENT_KEY : {Undefined, "K2xyz"},
    DESCOPE_REDIRECT_URL : {"http://localhost:3000/api/auth/callback"},
    JWT_SECRET : {Undefined, "your-secret-key"} ]

\* request inputs
Passwords == {"password", "wrong"}
Codes == {Undefined, "", "validcode123", NonString}
Errors == {Undefined, "", "access_denied"}

\* the homegrown user database
dummyUser(srv) ==
  IF srv = "router"
  THEN [id |-> "1", username |-> "testuser", email |-> Undefined]
  ELSE [id |-> "1", username |-> "testuser", email |-> "test@example.com"]

NoUser == [id |-> Undefined, username |-> Undefined, email |-> Undefined]

\* the identity a login handler is seeded with
SeededIdentity(srv) ==
  IF srv \in MFAServers THEN dummyUser(srv).email ELSE dummyUser(srv).username

\* the identities a login request can carry: the seeded one and an unknown one
Identities(srv) == {SeededIdentity(srv), "mallory@example.com"}

(* ------------------------------------------------------------------------ *)
(* Provider (Descope SDK) answers                                           *)
(* ------------------------------------------------------------------------ *)

\* an SdkResponse, or a raised error
SdkResponse(thrown, ok, data) == [thrown |-> thrown, ok |-> ok, data |-> data]
NoResponse == SdkResponse(FALSE, FALSE, Undefined)

AuthUrl == "https://api.descope.com/oauth2/v1/authorize?state=s1"

StartAnswers ==
  { SdkResponse(FALSE, TRUE, AuthUrl),
    SdkResponse(FALSE, TRUE, Undefined),
    SdkResponse(FALSE, FALSE, Undefined),
    SdkResponse(TRUE, FALSE, Undefined) }

ExchangeAnswers ==
  { SdkResponse(FALSE, TRUE, "refreshJwt1"),
    SdkResponse(FALSE, TRUE, Undefined),
    SdkResponse(FALSE, FALSE, Undefined),
    SdkResponse(TRUE, FALSE, Undefined) }

\* validateSession: a raised error, a falsy value, or the session's claims
UserInfo(thrown, truthy, userId, sub, email) ==
  [thrown |-> thrown, truthy |-> truthy, userId |-> userId, sub |-> sub, email |-> email]
NoUserInfo == UserInfo(FALSE, FALSE, Undefined, Undefined, Undefined)

\* the session of the seeded user, with userId and sub
ProviderSession == UserInfo(FALSE, TRUE, "U1", "S1", "test@example.com")

ValidateAnswers ==
  { UserInfo(TRUE, FALSE, Undefined, Undefined, Undefined),
    NoUserInfo,
    ProviderSession,
    UserInfo(FALSE, TRUE, Undefined, "U2", "mallory@example.com"),
    UserInfo(FALSE, TRUE, Undefined, Undefined, Undefined) }

(* ------------------------------------------------------------------------ *)
(* Tokens and responses                                                     *)
(* ------------------------------------------------------------------------ *)

\* setExpirationTime('1h'): the time to live of a token, in seconds
TTL == 3600

\* a compact JWS: header alg, the claims, and the key it is signed with
NoToken ==
  [alg |-> "none", sub |-> Undefined, email |-> Undefined, userId |-> Undefined,
   username |-> Undefined, exp |-> 0, key |-> Undefined]

\* new SignJWT({sub, email}).setProtectedHeader({alg:'HS256'}).setExpirationTime('1h').sign(secret)
\* at time t (seconds)
SignCallbackJWT(sub, email, secret, t) ==
  [alg |-> "HS256", sub |-> sub, email |-> email, userId |-> Undefined,
   username |-> Undefined, exp |-> t + TTL, key |-> secret]

\* new SignJWT({userId, username}).setProtectedHeader(...).setExpirationTime('1h').sign(secret)
\* at time t (seconds)
SignLoginJWT(userId, username, secret, t) ==
  [alg |-> "HS256", sub |-> Undefined, email |-> Undefined, userId |-> userId,
   username |-> username, exp |-> t + TTL, key |-> secret]

\* the payload jwtVerify returns for a token: its claims
Payload(token) ==
  [sub |-> token.sub, email |-> token.email, userId |-> token.userId,
   username |-> token.username, exp |-> token.exp]

NoPayload == Payload(NoToken)

\* new TextEncoder().encode(process.env.JWT_SECRET || '')
SecretKey(e) == IF Truthy(e.JWT_SECRET) THEN e.JWT_SECRET ELSE ""

\* a response: status and the fields of its body (absent fields are Undefined)
\* (payload: the token claims that /api/protected echoes as `user`)
Response(status, message, redirectUrl, token, user) ==
  [status |-> status, message |-> message, redirectUrl |-> redirectUrl,
   token |-> token, user |-> user, payload |-> NoPayload]

NoResponseYet == Response(0, Undefined, Undefined, NoToken, NoUser)

\* res.status(s).json({ message })
JsonMessage(status, message) == Response(status, message, Undefined, NoToken, NoUser)

(* ------------------------------------------------------------------------ *)
(* Request slots                                                            *)
(* ------------------------------------------------------------------------ *)

IdleSlot ==
  [ kind |-> "none", pc |-> "idle",
    identity |-> Undefined, password |-> Undefined,
    code |-> Undefined, error |-> Undefined,
    calls |-> << >>,
    response |-> NoResponse,
    tokenResponse |-> NoResponse,
    sessionToken |-> Undefined,
    sessionValidation |-> NoUserInfo,
    userToken |-> NoToken,
    route |-> Undefined,
    authorization |-> << >>,
    jwt |-> "none",
    user |-> NoPayload,
    next |-> FALSE,
    res |-> NoResponseYet ]

Call(op, arg) == [op |-> op, arg |-> arg]

\* request r is the next one to arrive
Free(r) ==
  /\ req[r].pc = "idle"
  /\ \A q \in Slots : q < r => req[q].pc # "idle"

\* the handler sends its response and ends
Respond(slot, response) == [slot EXCEPT !.pc = "done", !.res = response]

\* what a page's fetch has sent, and the answer it got
Fetch(url, authorization) == [url |-> url, authorization |-> authorization]
NoFetch == Fetch(Undefined, << >>)
FetchResponse(failed, json, ok, message, redirectUrl, token, user) ==
  [failed |-> failed, json |-> json, ok |-> ok, message |-> message,
   redirectUrl |-> redirectUrl, token |-> token, user |-> user]
NoFetchResponse ==
  FetchResponse(FALSE, FALSE, FALSE, Undefined, Undefined, Undefined, NoUser)

\* the browser before any page of the application is open: which auth.js
\* its pages load (with MFA, or the one before MFA), the page and its query,
\* the page it came from, localStorage.token, the position of the page's script, what the page
\* shows, and the fetch in flight
ClosedBrowser ==
  [ variant |-> "mfa",
    page |-> "none",
    referrer |-> "none",
    query |-> Undefined,
    localStorage |-> Undefined,
    pc |-> "idle",
    protectedContent |-> FALSE,
    userEmailSpan |-> Undefined,
    error |-> Undefined,
    fetch |-> NoFetch,
    response |-> NoFetchResponse ]

Init ==
  /\ browser = ClosedBrowser
  /\ server \in Servers
  /\ env \in Envs
  \* a variable that no handler of the server reads stays unset
  /\ server # "express" => env.DESCOPE_MANAGEMENT_KEY = Undefined
  /\ server \in HomegrownServers => env.DESCOPE_PROJECT_ID = Undefined
  /\ req = [r \in Slots |-> IdleSlot]
  /\ gateAccepted = FALSE
  /\ now = 0
  \* whether the jose build of the deployment signs and verifies with a
  \* zero-length key or raises; it only shows when the secret is empty
  /\ zeroKeyOk \in BOOLEAN
  /\ Truthy(env.JWT_SECRET) => zeroKeyOk

(* ------------------------------------------------------------------------ *)
(* POST /api/auth/login of the MFA servers                                  *)
(* ------------------------------------------------------------------------ *)

\* variant: a first-factor check that accepts every secret
CredentialsAccepted_any(srv, identity, password) ==
  IF srv \in MFAServers
  THEN TRUE
  ELSE identity = "testuser"

\* the first-factor check of a login handler
CredentialsAccepted(srv, identity, password) ==
  IF srv \in MFAServers
  THEN password = "password"
  ELSE identity = "testuser" /\ password = "password"

\* getOidcRedirectUrl up to its await: is the provider configuration missing
ConfigMissing(srv, e) ==
  IF srv = "express"
  THEN ~Truthy(e.DESCOPE_PROJECT_ID) \/ ~Truthy(e.DESCOPE_MANAGEMENT_KEY)
  ELSE ~Truthy(e.DESCOPE_PROJECT_ID)

\* the value of an expression that raised
Thrown == "<thrown>"

\* variant: the provider's URL returned as it is, without a login hint
getOidcRedirectUrl_noHint(response, userEmail) ==
  IF response.thrown THEN Thrown
  ELSE IF ~response.ok THEN Thrown
  ELSE IF ~Truthy(response.data) THEN Thrown
  ELSE response.data

\* getOidcRedirectUrl after oauth.start answered
getOidcRedirectUrl(response, userEmail) ==
  IF response.thrown THEN Thrown
  ELSE IF ~response.ok THEN Thrown
  ELSE IF ~Truthy(response.data) THEN Thrown
  ELSE response.data \o "&login_hint=" \o Str(userEmail)

\* variant: a login handler that calls oauth.start without looking at the
\* provider configuration
login_configUnchecked(srv, e, email, password) ==
  LET slot == [IdleSlot EXCEPT !.kind = "login", !.identity = email,
                               !.password = password]
  IN  IF CredentialsAccepted(srv, email, password)
      THEN [slot EXCEPT !.pc = "start",
                        !.calls = <<Call("oauth.start", e.DESCOPE_REDIRECT_URL)>>]
      ELSE Respond(slot, JsonMessage(401, "Invalid credentials"))

\* variant: a login handler that looks at the provider configuration before
\* it checks the password
login_configFirst(srv, e, email, password) ==
  LET slot == [IdleSlot EXCEPT !.kind = "login", !.identity = email,
                               !.password = password]
  IN  IF ConfigMissing(srv, e)
      THEN Respond(slot, JsonMessage(500, "Error getting redirect URL"))
      ELSE IF CredentialsAccepted(srv, email, password)
      THEN [slot EXCEPT !.pc = "start",
                        !.calls = <<Call("oauth.start", e.DESCOPE_REDIRECT_URL)>>]
      ELSE Respond(slot, JsonMessage(401, "Invalid credentials"))

\* variant: a login handler that takes the return address from the request
login_returnAddressFromBody(srv, e, email, password) ==
  LET slot == [IdleSlot EXCEPT !.kind = "login", !.identity = email,
                               !.password = password]
  IN  IF CredentialsAccepted(srv, email, password)
      THEN IF ConfigMissing(srv, e)
           THEN Respond(slot, JsonMessage(500, "Error getting redirect URL"))
           ELSE [slot EXCEPT !.pc = "start",
                             !.calls = <<Call("oauth.start",
                                              "http://" \o Str(email) \o "/callback")>>]
      ELSE Respond(slot, JsonMessage(401, "Invalid credentials"))

\* the login handler up to the await of oauth.start
login(srv, e, email, password) ==
  LET slot == [IdleSlot EXCEPT !.kind = "login", !.identity = email,
                               !.password = password]
  IN  IF CredentialsAccepted(srv, email, password)
      THEN IF ConfigMissing(srv, e)
           THEN Respond(slot, JsonMessage(500, "Error getting redirect URL"))
           ELSE [slot EXCEPT !.pc = "start",
                             !.calls = <<Call("oauth.start", e.DESCOPE_REDIRECT_URL)>>]
      ELSE Respond(slot, JsonMessage(401, "Invalid credentials"))

\* variant: a login handler that still issues the pre-MFA token next to the
\* redirect URL
loginResume_issuesToken(slot, response) ==
  LET s == [slot EXCEPT !.response = response]
      redirectUrl == getOidcRedirectUrl(response, slot.identity)
      token == SignLoginJWT("1", "testuser", "", 0)
  IN  IF redirectUrl = Thrown
      THEN Respond(s, JsonMessage(500, "Error getting redirect URL"))
      ELSE Respond([s EXCEPT !.userToken = token],
                   Response(200, Undefined, redirectUrl, token, NoUser))

\* the login handler after oauth.start answered
loginResume(slot, response) ==
  LET s == [slot EXCEPT !.response = response]
      redirectUrl == getOidcRedirectUrl(response, slot.identity)
  IN  IF redirectUrl = Thrown
      THEN Respond(s, JsonMessage(500, "Error getting redirect URL"))
      ELSE Respond(s, Response(200, Undefined, redirectUrl, NoToken, NoUser))

LoginRequest(r, email, password) ==
  /\ server \in MFAServers
  /\ Free(r)
  /\ req' = [req EXCEPT ![r] = login(server, env, email, password)]
  /\ gateAccepted' = (gateAccepted \/ CredentialsAccepted(server, email, password))
  /\ UNCHANGED <<server, env, now, zeroKeyOk, browser>>

LoginStartReturns(r, response) ==
  /\ req[r].kind = "login"
  /\ req[r].pc = "start"
  /\ req' = [req EXCEPT ![r] = loginResume(req[r], response)]
  /\ UNCHANGED <<server, env, gateAccepted, now, zeroKeyOk, browser>>

(* ------------------------------------------------------------------------ *)
(* GET /api/auth/callback of the MFA servers                                *)
(* ------------------------------------------------------------------------ *)

\* variant: a callback handler that looks at the code before the error
callback_codeFirst(code, error) ==
  LET slot == [IdleSlot EXCEPT !.kind = "callback", !.code = code, !.error = error]
  IN  IF Truthy(code) /\ IsString(code)
      THEN [slot EXCEPT !.pc = "exchange", !.calls = <<Call("oauth.exchange", code)>>]
      ELSE IF Truthy(error)
      THEN Respond(slot, JsonMessage(400, "Authentication failed: " \o Str(error)))
      ELSE Respond(slot, JsonMessage(400, "No authorization code provided"))

\* variant: a callback handler without the typeof check of the code
callback_noTypeCheck(code, error) ==
  LET slot == [IdleSlot EXCEPT !.kind = "callback", !.code = code, !.error = error]
  IN  IF Truthy(error)
      THEN Respond(slot, JsonMessage(400, "Authentication failed: " \o Str(error)))
      ELSE IF ~Truthy(code)
      THEN Respond(slot, JsonMessage(400, "No authorization code provided"))
      ELSE [slot EXCEPT !.pc = "exchange", !.calls = <<Call("oauth.exchange", code)>>]

\* the callback handler up to the await of oauth.exchange
callback(code, error) ==
  LET slot == [IdleSlot EXCEPT !.kind = "callback", !.code = code, !.error = error]
  IN  IF Truthy(error)
      THEN Respond(slot, JsonMessage(400, "Authentication failed: " \o Str(error)))
      ELSE IF ~Truthy(code) \/ ~IsString(code)
      THEN Respond(slot, JsonMessage(400, "No authorization code provided"))
      ELSE [slot EXCEPT !.pc = "exchange", !.calls = <<Call("oauth.exchange", code)>>]

\* variant: a callback handler that does not look at tokenResponse.ok
callbackExchanged_ignoresOk(slot, tokenResponse) ==
  LET s == [slot EXCEPT !.tokenResponse = tokenResponse]
  IN  IF tokenResponse.thrown
      THEN Respond(s, JsonMessage(500, "Error processing authentication"))
      ELSE [s EXCEPT !.pc = "validate",
                     !.sessionToken = tokenResponse.data,
                     !.calls = Append(@, Call("validateSession", tokenResponse.data))]

\* variant: a callback handler that validates whatever the exchange returned
callbackExchanged_noSessionCheck(slot, tokenResponse) ==
  LET s == [slot EXCEPT !.tokenResponse = tokenResponse]
  IN  IF tokenResponse.thrown
      THEN Respond(s, JsonMessage(500, "Error processing authentication"))
      ELSE IF ~tokenResponse.ok
      THEN Respond(s, JsonMessage(401, "Failed to exchange authorization code"))
      ELSE [s EXCEPT !.pc = "validate",
                     !.sessionToken = tokenResponse.data,
                     !.calls = Append(@, Call("validateSession", tokenResponse.data))]

\* variant: a callback handler that calls oauth.exchange a second time when
\* the first exchange was not ok
callbackExchanged_retry(slot, tokenResponse) ==
  LET s == [slot EXCEPT !.tokenResponse = tokenResponse]
  IN  IF tokenResponse.thrown
      THEN Respond(s, JsonMessage(500, "Error processing authentication"))
      ELSE IF ~tokenResponse.ok /\ Len(slot.calls) = 1
      THEN [s EXCEPT !.calls = Append(@, Call("oauth.exchange", slot.code))]
      ELSE IF ~tokenResponse.ok
      THEN Respond(s, JsonMessage(401, "Failed to exchange authorization code"))
      ELSE IF ~Truthy(tokenResponse.data)
      THEN Respond(s, JsonMessage(401, "No session token received"))
      ELSE [s EXCEPT !.pc = "validate",
                     !.sessionToken = tokenResponse.data,
                     !.calls = Append(@, Call("validateSession", tokenResponse.data))]

\* the callback handler from the answer of oauth.exchange to the await of
\* validateSession
callbackExchanged(slot, tokenResponse) ==
  LET s == [slot EXCEPT !.tokenResponse = tokenResponse]
  IN  IF tokenResponse.thrown
      THEN Respond(s, JsonMessage(500, "Error processing authentication"))
      ELSE IF ~tokenResponse.ok
      THEN Respond(s, JsonMessage(401, "Failed to exchange authorization code"))
      ELSE IF ~Truthy(tokenResponse.data)
      THEN Respond(s, JsonMessage(401, "No session token received"))
      ELSE [s EXCEPT !.pc = "validate",
                     !.sessionToken = tokenResponse.data,
                     !.calls = Append(@, Call("validateSession", tokenResponse.data))]

\* variant: a callback handler that does not look at the validation result
callbackValidated_noCheck(slot, sessionValidation) ==
  LET s == [slot EXCEPT !.sessionValidation = sessionValidation]
  IN  IF sessionValidation.thrown
      THEN Respond(s, JsonMessage(500, "Error processing authentication"))
      ELSE [s EXCEPT !.pc = "sign"]

\* variant: a callback handler that returns without a response when the
\* session is not valid
callbackValidated_noResponse(slot, sessionValidation) ==
  LET s == [slot EXCEPT !.sessionValidation = sessionValidation]
  IN  IF sessionValidation.thrown
      THEN Respond(s, JsonMessage(500, "Error processing authentication"))
      ELSE IF ~sessionValidation.truthy
      THEN [s EXCEPT !.pc = "returned"]
      ELSE [s EXCEPT !.pc = "sign"]

\* the callback handler from the answer of validateSession to the await of
\* SignJWT.sign
callbackValidated(slot, sessionValidation) ==
  LET s == [slot EXCEPT !.sessionValidation = sessionValidation]
  IN  IF sessionValidation.thrown
      THEN Respond(s, JsonMessage(500, "Error processing authentication"))
      ELSE IF ~sessionValidation.truthy
      THEN Respond(s, JsonMessage(401, "Invalid session"))
      ELSE [s EXCEPT !.pc = "sign"]

\* variant: the subject taken from sub before userId
SubjectOf_subFirst(userInfo) ==
  IF Truthy(userInfo.sub) THEN userInfo.sub
  ELSE IF Truthy(userInfo.userId) THEN userInfo.userId
  ELSE ""

\* userInfo.userId || userInfo.sub || ''
SubjectOf(userInfo) ==
  IF Truthy(userInfo.userId) THEN userInfo.userId
  ELSE IF Truthy(userInfo.sub) THEN userInfo.sub
  ELSE ""

\* userInfo.email || ''
EmailOf(userInfo) == IF Truthy(userInfo.email) THEN userInfo.email ELSE ""

\* variant: a callback handler that signs the email of the login that passed
\* the first factor, when there is one
callbackSigned_loginEmail(e, slot, thrown, t) ==
  IF thrown
  THEN Respond(slot, JsonMessage(500, "Error processing authentication"))
  ELSE LET passed == {q \in Slots : req[q].kind = "login" /\ req[q].res.status = 200}
           email == IF passed = {}
                    THEN EmailOf(slot.sessionValidation)
                    ELSE req[CHOOSE q \in passed : TRUE].identity
           userToken == SignCallbackJWT(SubjectOf(slot.sessionValidation), email,
                                        SecretKey(e), t)
       IN  Respond([slot EXCEPT !.userToken = userToken],
                   Response(200, Undefined, Undefined, userToken, NoUser))

\* the callback handler after SignJWT.sign answered
callbackSigned(e, slot, thrown, t) ==
  IF thrown
  THEN Respond(slot, JsonMessage(500, "Error processing authentication"))
  ELSE LET userToken == SignCallbackJWT(SubjectOf(slot.sessionValidation),
                                        EmailOf(slot.sessionValidation),
                                        SecretKey(e), t)
       IN  Respond([slot EXCEPT !.userToken = userToken],
                   Response(200, Undefined, Undefined, userToken, NoUser))

\* sign() with a zero-length key raises or not, depending on the jose build
SignMayThrow(e) == IF SecretKey(e) = "" THEN {~zeroKeyOk} ELSE {FALSE}

CallbackRequest(r, code, error) ==
  /\ server \in MFAServers
  /\ Free(r)
  /\ req' = [req EXCEPT ![r] = callback(code, error)]
  /\ UNCHANGED <<server, env, gateAccepted, now, zeroKeyOk, browser>>

CallbackExchangeReturns(r, tokenResponse) ==
  /\ req[r].kind = "callback"
  /\ req[r].pc = "exchange"
  /\ req' = [req EXCEPT ![r] = callbackExchanged(req[r], tokenResponse)]
  /\ UNCHANGED <<server, env, gateAccepted, now, zeroKeyOk, browser>>

CallbackValidateReturns(r, sessionValidation) ==
  /\ req[r].kind = "callback"
  /\ req[r].pc = "validate"
  /\ req' = [req EXCEPT ![r] = callbackValidated(req[r], sessionValidation)]
  /\ UNCHANGED <<server, env, gateAccepted, now, zeroKeyOk, browser>>

\* variant: a callback handler that keeps userInfo in a variable of the
\* module, so that the token is signed for the session validated last
CallbackSignReturns_sharedUserInfo(r, thrown) ==
  /\ req[r].kind = "callback"
  /\ req[r].pc = "sign"
  /\ thrown \in SignMayThrow(env)
  /\ \E q \in Slots :
       /\ req[q].kind = "callback"
       /\ req[q].pc \in {"sign", "done"}
       /\ req[q].sessionValidation.truthy
       /\ req' = [req EXCEPT ![r] =
                    [callbackSigned(env, [req[r] EXCEPT !.sessionValidation =
                                                          req[q].sessionValidation],
                                    thrown, now)
                       EXCEPT !.sessionValidation = req[r].sessionValidation]]
  /\ UNCHANGED <<server, env, gateAccepted, now, zeroKeyOk, browser>>

CallbackSignReturns(r, thrown) ==
  /\ req[r].kind = "callback"
  /\ req[r].pc = "sign"
  /\ thrown \in SignMayThrow(env)
  /\ req' = [req EXCEPT ![r] = callbackSigned(env, req[r], thrown, now)]
  /\ UNCHANGED <<server, env, gateAccepted, now, zeroKeyOk, browser>>

(* ------------------------------------------------------------------------ *)
(* POST /login of the servers without MFA                                   *)
(* ------------------------------------------------------------------------ *)

\* the user object of a login response
LoginUser(srv) ==
  IF srv = "router"
  THEN [id |-> dummyUser(srv).id, username |-> dummyUser(srv).username, email |-> Undefined]
  ELSE dummyUser(srv)

\* variant: a login handler that looks the user up first and says so
homegrownLogin_userLookup(srv, username, password) ==
  LET slot == [IdleSlot EXCEPT !.kind = "login", !.identity = username,
                               !.password = password]
  IN  IF username # "testuser"
      THEN Respond(slot, JsonMessage(401, "User not found"))
      ELSE IF password = "password"
      THEN [slot EXCEPT !.pc = "sign"]
      ELSE Respond(slot, JsonMessage(401, "Invalid credentials"))

\* the login handler up to the await of SignJWT.sign
homegrownLogin(srv, username, password) ==
  LET slot == [IdleSlot EXCEPT !.kind = "login", !.identity = username,
                               !.password = password]
  IN  IF CredentialsAccepted(srv, username, password)
      THEN [slot EXCEPT !.pc = "sign"]
      ELSE Respond(slot, JsonMessage(401, "Invalid credentials"))

\* the login handler after SignJWT.sign answered
homegrownSigned(srv, e, slot, thrown, t) ==
  IF thrown
  THEN Respond(slot, JsonMessage(500, "Error creating token"))
  ELSE LET token == SignLoginJWT(dummyUser(srv).id, dummyUser(srv).username, SecretKey(e), t)
       IN  Respond([slot EXCEPT !.userToken = token],
                   Response(200, Undefined, Undefined, token, LoginUser(srv)))

HomegrownLoginRequest(r, username, password) ==
  /\ server \in HomegrownServers
  /\ Free(r)
  /\ req' = [req EXCEPT ![r] = homegrownLogin(server, username, password)]
  /\ gateAccepted' = (gateAccepted \/ CredentialsAccepted(server, username, password))
  /\ UNCHANGED <<server, env, now, zeroKeyOk, browser>>

HomegrownSignReturns(r, thrown) ==
  /\ req[r].kind = "login"
  /\ req[r].pc = "sign"
  /\ thrown \in SignMayThrow(env)
  /\ req' = [req EXCEPT ![r] = homegrownSigned(server, env, req[r], thrown, now)]
  /\ UNCHANGED <<server, env, gateAccepted, now, zeroKeyOk, browser>>

(* ------------------------------------------------------------------------ *)
(* Access guard: authenticateToken, GET /api/auth/me, GET /api/protected    *)
(* ------------------------------------------------------------------------ *)

\* a key the server does not sign with
AttackerKey == "attacker-key"

\* a string that is not a compact JWS
Malformed == [NoToken EXCEPT !.alg = "malformed"]

\* tokens made outside the server: a malformed one, and well-formed unexpired
\* ones signed with another key and with the zero-length key
Forged ==
  { Malformed,
    SignCallbackJWT("U1", "test@example.com", AttackerKey, TTL + 1),
    SignCallbackJWT("U1", "test@example.com", "", TTL + 1) }

\* a token this server issued before the run began, with one second to live
IssuedEarlier ==
  IF server \in MFAServers
  THEN [SignCallbackJWT("U1", "test@example.com", SecretKey(env), 0) EXCEPT !.exp = 1]
  ELSE [SignLoginJWT(dummyUser(server).id, dummyUser(server).username,
                     SecretKey(env), 0) EXCEPT !.exp = 1]

\* the tokens a client can present: those a response carried, one issued
\* earlier, and forged ones
Presentable ==
  { req[q].res.token : q \in {p \in Slots : req[p].res.token # NoToken} }
    \cup {IssuedEarlier} \cup Forged

\* the Authorization headers of a request, as their space-separated fields
\* (no header: no field)
Headers == { << >>, <<"Bearer">> } \cup { <<"Bearer", t>> : t \in Presentable }

\* the routes behind the guard; in routes/auth.ts GET /me verifies inline and
\* authenticateToken is exported for the routes of its importer
Routes(srv) == IF srv = "router" THEN {"me", "middleware"} ELSE {"me", "protected"}

\* req.headers.authorization?.split(' ')[1]
HeaderToken(authorization) ==
  IF Len(authorization) >= 2 THEN authorization[2] ELSE NoToken

\* variant: a verification that decodes the token without checking its
\* signature
jwtVerify_noSignature(token, secret, t) ==
  IF token.alg # "HS256" THEN "JWSInvalid"
  ELSE IF token.exp <= t THEN "JWTExpired"
  ELSE "payload"

\* variant: a verification that does not look at the exp claim
jwtVerify_noExpiry(token, secret, t) ==
  IF token.alg # "HS256" THEN "JWSInvalid"
  ELSE IF token.key # secret THEN "JWSSignatureVerificationFailed"
  ELSE "payload"

\* jwtVerify(token, secret) at time t: "payload", or the error it raises
jwtVerify(token, secret, t) ==
  IF token.alg # "HS256" THEN "JWSInvalid"
  ELSE IF token.key # secret THEN "JWSSignatureVerificationFailed"
  ELSE IF token.exp <= t THEN "JWTExpired"
  ELSE "payload"

\* verification with a zero-length key raises or not, depending on the jose build
JwtVerifyOutcomes(token, secret, t) ==
  IF secret = "" /\ ~zeroKeyOk
  THEN {"KeyRejected"}
  ELSE {jwtVerify(token, secret, t)}

\* variant: a guard that takes the token only from a Bearer header
authenticateToken_checksScheme(route, authorization) ==
  LET slot == [IdleSlot EXCEPT !.kind = "guard", !.route = route,
                               !.authorization = authorization]
  IN  IF Len(authorization) < 2 \/ authorization[1] # "Bearer"
      THEN Respond(slot, JsonMessage(401, "No token provided"))
      ELSE [slot EXCEPT !.pc = "verify"]

\* the guard up to the await of jwtVerify
authenticateToken(route, authorization) ==
  LET slot == [IdleSlot EXCEPT !.kind = "guard", !.route = route,
                               !.authorization = authorization]
  IN  IF HeaderToken(authorization) = NoToken
      THEN Respond(slot, JsonMessage(401, "No token provided"))
      ELSE [slot EXCEPT !.pc = "verify"]

\* variant: a GET /me that answers with the claims of the presented token
handler_meFromToken(srv, slot) ==
  IF slot.route = "me"
  THEN Respond(slot, Response(200, Undefined, Undefined, NoToken,
                              [id |-> slot.user.sub, username |-> Undefined,
                               email |-> slot.user.email]))
  ELSE IF slot.route = "protected"
  THEN Respond(slot, [Response(200, "This is a protected route", Undefined,
                               NoToken, NoUser) EXCEPT !.payload = slot.user])
  ELSE [slot EXCEPT !.pc = "next"]

\* the handler behind the guard
handler(srv, slot) ==
  IF slot.route = "me"
  THEN Respond(slot, Response(200, Undefined, Undefined, NoToken, dummyUser(srv)))
  ELSE IF slot.route = "protected"
  THEN Respond(slot, [Response(200, "This is a protected route", Undefined,
                               NoToken, NoUser) EXCEPT !.payload = slot.user])
  ELSE [slot EXCEPT !.pc = "next"]

\* variant: a guard that calls next() whatever jwtVerify answered
authenticateTokenVerified_alwaysNext(srv, slot, outcome) ==
  LET s == [slot EXCEPT !.jwt = outcome]
      payload == Payload(HeaderToken(slot.authorization))
  IN  handler(srv, [s EXCEPT !.next = TRUE, !.user = payload])

\* variant: a guard that tells an expired token from an invalid one
authenticateTokenVerified_tellsExpiry(srv, slot, outcome) ==
  LET s == [slot EXCEPT !.jwt = outcome]
      payload == Payload(HeaderToken(slot.authorization))
  IN  IF outcome = "JWTExpired"
      THEN Respond(s, JsonMessage(401, "Token expired"))
      ELSE IF outcome # "payload"
      THEN Respond(s, JsonMessage(401, "Invalid token"))
      ELSE IF srv = "router"
      THEN IF Truthy(payload.userId) /\ Truthy(payload.username)
           THEN handler(srv, [s EXCEPT !.next = TRUE,
                                       !.user = [NoPayload EXCEPT
                                                   !.userId = payload.userId,
                                                   !.username = payload.username]])
           ELSE Respond(s, JsonMessage(401, "Invalid token payload"))
      ELSE handler(srv, [s EXCEPT !.next = TRUE, !.user = payload])

\* variant: a router guard that lets every verified token through, whatever
\* its claims
authenticateTokenVerified_noPayloadCheck(srv, slot, outcome) ==
  LET s == [slot EXCEPT !.jwt = outcome]
      payload == Payload(HeaderToken(slot.authorization))
  IN  IF outcome # "payload"
      THEN Respond(s, JsonMessage(401, "Invalid token"))
      ELSE IF srv = "router"
      THEN handler(srv, [s EXCEPT !.next = TRUE,
                                  !.user = [NoPayload EXCEPT
                                              !.userId = payload.userId,
                                              !.username = payload.username]])
      ELSE handler(srv, [s EXCEPT !.next = TRUE, !.user = payload])

authenticateTokenVerified(srv, slot, outcome) ==
  LET s == [slot EXCEPT !.jwt = outcome]
      payload == Payload(HeaderToken(slot.authorization))
  IN  IF outcome # "payload"
      THEN Respond(s, JsonMessage(401, "Invalid token"))
      ELSE IF srv = "router"
      THEN IF Truthy(payload.userId) /\ Truthy(payload.username)
           THEN handler(srv, [s EXCEPT !.next = TRUE,
                                       !.user = [NoPayload EXCEPT
                                                   !.userId = payload.userId,
                                                   !.username = payload.username]])
           ELSE Respond(s, JsonMessage(401, "Invalid token payload"))
      ELSE handler(srv, [s EXCEPT !.next = TRUE, !.user = payload])

GuardRequest(r, route, authorization) ==
  /\ Free(r)
  /\ route \in Routes(server)
  /\ req' = [req EXCEPT ![r] = authenticateToken(route, authorization)]
  /\ UNCHANGED <<server, env, gateAccepted, now, zeroKeyOk, browser>>

GuardVerifyReturns(r, outcome) ==
  /\ req[r].kind = "guard"
  /\ req[r].pc = "verify"
  /\ outcome \in JwtVerifyOutcomes(HeaderToken(req[r].authorization), SecretKey(env), now)
  /\ req' = [req EXCEPT ![r] = authenticateTokenVerified(server, req[r], outcome)]
  /\ UNCHANGED <<server, env, gateAccepted, now, zeroKeyOk, browser>>

\* the instants of the clock (seconds): around the issue of a token and
\* around the end of its life
Times == {0, 1, TTL, TTL + 1}

\* time passes
Tick(t) ==
  /\ t > now
  /\ now' = t
  /\ UNCHANGED <<server, env, req, gateAccepted, zeroKeyOk, browser>>

(* ------------------------------------------------------------------------ *)
(* Frontend: public/auth.js, with MFA (lines 1-289) and before (290-374)    *)
(* ------------------------------------------------------------------------ *)

\* the tokens a browser can hold: opaque strings to the page
StoredTokens == {"jwtA", "jwtB"}

\* the values of the form fields of the login page
FormValues == {"", "test@example.com", "password"}

\* window.location.href = ...: the page is left, its script and its fetch
\* with it, and the target page starts to load
Navigate(b, page, query) ==
  [b EXCEPT !.page = page, !.referrer = b.page, !.query = query, !.pc = "load",
            !.protectedContent = FALSE, !.userEmailSpan = Undefined,
            !.error = Undefined, !.fetch = NoFetch, !.response = NoFetchResponse]

showError(b, message) == [b EXCEPT !.error = message]

\* the answers of POST /auth/login as fetch and response.json() see them: a
\* failed request, a body that is not JSON, or a JSON body with its status
LoginAnswers ==
  { FetchResponse(TRUE, FALSE, FALSE, Undefined, Undefined, Undefined, NoUser),
    FetchResponse(FALSE, FALSE, FALSE, Undefined, Undefined, Undefined, NoUser),
    FetchResponse(FALSE, TRUE, TRUE, Undefined, AuthUrl, Undefined, NoUser),
    FetchResponse(FALSE, TRUE, TRUE, Undefined, Undefined, "jwtA", dummyUser("router")),
    FetchResponse(FALSE, TRUE, FALSE, "Invalid credentials", Undefined, Undefined, NoUser),
    FetchResponse(FALSE, TRUE, FALSE, Undefined, Undefined, Undefined, NoUser) }

\* the answers of GET /auth/me
MeAnswers ==
  { FetchResponse(TRUE, FALSE, FALSE, Undefined, Undefined, Undefined, NoUser),
    FetchResponse(FALSE, FALSE, FALSE, Undefined, Undefined, Undefined, NoUser),
    FetchResponse(FALSE, FALSE, TRUE, Undefined, Undefined, Undefined, NoUser),
    FetchResponse(FALSE, TRUE, TRUE, Undefined, Undefined, Undefined, dummyUser("api")),
    FetchResponse(FALSE, TRUE, FALSE, "Invalid token", Undefined, Undefined, NoUser) }

\* the isCallbackPage block of the script with MFA
callbackPage(b) ==
  IF Truthy(b.query)
  THEN Navigate([b EXCEPT !.localStorage = b.query], "protected", Undefined)
  ELSE [showError(b, "No token received from authentication") EXCEPT !.pc = "idle"]

\* variant: a page that asks /auth/me whether or not a token is stored
DOMContentLoaded_noTokenCheck(b) ==
  IF b.page = "protected"
  THEN [b EXCEPT !.pc = "me",
                 !.fetch = Fetch("/auth/me", <<"Bearer", b.localStorage>>)]
  ELSE [b EXCEPT !.pc = "idle"]

\* the DOMContentLoaded handler, up to the await in fetchUserInfo
DOMContentLoaded(b) ==
  IF b.page = "protected"
  THEN IF ~Truthy(b.localStorage)
       THEN Navigate(b, "login", Undefined)
       ELSE [b EXCEPT !.pc = "me",
                      !.fetch = Fetch("/auth/me", <<"Bearer", b.localStorage>>)]
  ELSE [b EXCEPT !.pc = "idle"]

\* showProtectedContent(data.user); the script before MFA only fills in the
\* user name
showProtectedContent(b, user) ==
  IF b.variant = "mfa"
  THEN [b EXCEPT !.protectedContent = TRUE, !.userEmailSpan = user.email]
  ELSE [b EXCEPT !.userEmailSpan = user.username]

\* variant: fetchUserInfo that keeps the token when /auth/me refuses it
fetchUserInfoResume_keepsToken(b, response) ==
  LET a == [b EXCEPT !.response = response, !.pc = "idle"]
  IN  IF response.failed \/ ~response.json
      THEN showError(a, "An error occurred while fetching user info")
      ELSE IF response.ok
      THEN showProtectedContent(a, response.user)
      ELSE Navigate(a, "login", Undefined)

\* fetchUserInfo after the fetch of /auth/me answered
fetchUserInfoResume(b, response) ==
  LET a == [b EXCEPT !.response = response, !.pc = "idle"]
  IN  IF response.failed \/ ~response.json
      THEN showError(a, "An error occurred while fetching user info")
      ELSE IF response.ok
      THEN showProtectedContent(a, response.user)
      ELSE Navigate([a EXCEPT !.localStorage = Undefined], "login", Undefined)

\* login() up to the await of fetch
clientLogin(b, email, password) ==
  IF b.variant = "mfa" /\ (~Truthy(email) \/ ~Truthy(password))
  THEN showError(b, "Please enter both email and password")
  ELSE [b EXCEPT !.pc = "login", !.fetch = Fetch("/auth/login", << >>)]

\* variant: login() with MFA that stores the token of the login response
clientLoginResume_storesToken(b, response) ==
  LET a == [b EXCEPT !.response = response, !.pc = "idle"]
  IN  IF response.failed \/ ~response.json
      THEN showError(a, "An error occurred during login")
      ELSE IF response.ok
      THEN Navigate([a EXCEPT !.localStorage = response.token], "protected", Undefined)
      ELSE showError(a, response.message)

\* login() after the fetch of /auth/login answered
clientLoginResume(b, response) ==
  LET a == [b EXCEPT !.response = response, !.pc = "idle"]
  IN  IF response.failed \/ ~response.json
      THEN showError(a, "An error occurred during login")
      ELSE IF response.ok
      THEN IF b.variant = "mfa"
           THEN Navigate(a, IF response.redirectUrl = AuthUrl THEN "provider" ELSE "other",
                         Undefined)
           ELSE Navigate([a EXCEPT !.localStorage = Str(response.token)],
                         "protected", Undefined)
      ELSE IF b.variant = "mfa"
      THEN showError(a, IF Truthy(response.message) THEN response.message
                        ELSE "Login failed")
      ELSE showError(a, response.message)

logout(b) == Navigate([b EXCEPT !.localStorage = Undefined], "login", Undefined)

\* the user opens a page of the application by its address
OpenPage(page, query) ==
  /\ browser' = Navigate(browser, page, query)
  /\ UNCHANGED <<server, env, req, gateAccepted, now, zeroKeyOk>>

\* the page has loaded: its script runs
PageLoads ==
  /\ browser.pc = "load"
  /\ browser' = IF browser.variant = "mfa" /\ browser.page = "callback"
                THEN callbackPage(browser)
                ELSE DOMContentLoaded(browser)
  /\ UNCHANGED <<server, env, req, gateAccepted, now, zeroKeyOk>>

MeReturns(response) ==
  /\ browser.pc = "me"
  /\ browser' = fetchUserInfoResume(browser, response)
  /\ UNCHANGED <<server, env, req, gateAccepted, now, zeroKeyOk>>

\* the user submits the login form
SubmitLogin(email, password) ==
  /\ browser.page = "login"
  /\ browser.pc = "idle"
  /\ browser' = clientLogin(browser, email, password)
  /\ UNCHANGED <<server, env, req, gateAccepted, now, zeroKeyOk>>

ClientLoginReturns(response) ==
  /\ browser.pc = "login"
  /\ browser' = clientLoginResume(browser, response)
  /\ UNCHANGED <<server, env, req, gateAccepted, now, zeroKeyOk>>

\* the user presses the logout button of the protected page
Logout ==
  /\ browser.page = "protected"
  /\ browser.pc \in {"idle", "me"}
  /\ browser' = logout(browser)
  /\ UNCHANGED <<server, env, req, gateAccepted, now, zeroKeyOk>>

\* the browser is sent to GET /api/auth/callback and the server answers with
\* the page whose script stores the token and goes to the protected page, or
\* with an error
CallbackResponse(token) ==
  /\ browser.variant = "mfa"
  /\ browser' = IF token = Undefined
                THEN [Navigate(browser, "other", Undefined) EXCEPT !.pc = "idle"]
                ELSE Navigate([browser EXCEPT !.localStorage = token],
                              "protected", Undefined)
  /\ UNCHANGED <<server, env, req, gateAccepted, now, zeroKeyOk>>

InitFrontend ==
  /\ server = "api"
  /\ env = [ DESCOPE_PROJECT_ID |-> "P2abc",
             DESCOPE_MANAGEMENT_KEY |-> Undefined,
             DESCOPE_REDIRECT_URL |-> "http://localhost:3000/api/auth/callback",
             JWT_SECRET |-> "your-secret-key" ]
  /\ req = [r \in Slots |-> IdleSlot]
  /\ gateAccepted = FALSE
  /\ now = 0
  /\ zeroKeyOk = TRUE
  /\ \E variant \in {"mfa", "before"}, token \in StoredTokens \cup {Undefined} :
       browser = [ClosedBrowser EXCEPT !.variant = variant, !.localStorage = token]

NextFrontend ==
  \/ \E page \in {"login", "protected"} : OpenPage(page, Undefined)
  \/ \E query \in StoredTokens \cup {Undefined} : OpenPage("callback", query)
  \/ PageLoads
  \/ \E response \in MeAnswers : MeReturns(response)
  \/ \E email \in FormValues, password \in FormValues : SubmitLogin(email, password)
  \/ \E response \in LoginAnswers : ClientLoginReturns(response)
  \/ Logout
  \/ \E token \in StoredTokens \cup {Undefined} : CallbackResponse(token)

SpecFrontend == InitFrontend /\ [][NextFrontend]_vars

(* ------------------------------------------------------------------------ *)
(* Specification                                                            *)
(* ------------------------------------------------------------------------ *)

Next ==
  \/ \E r \in Slots, email \in Identities(server), password \in Passwords :
        LoginRequest(r, email, password)
  \/ \E r \in Slots, response \in StartAnswers : LoginStartReturns(r, response)
  \/ \E r \in Slots, code \in Codes, error \in Errors : CallbackRequest(r, code, error)
  \/ \E r \in Slots, tokenResponse \in ExchangeAnswers :
        CallbackExchangeReturns(r, tokenResponse)
  \/ \E r \in Slots, sessionValidation \in ValidateAnswers :
        CallbackValidateReturns(r, sessionValidation)
  \/ \E r \in Slots, thrown \in BOOLEAN : CallbackSignReturns(r, thrown)
  \/ \E r \in Slots, username \in Identities(server), password \in Passwords :
        HomegrownLoginRequest(r, username, password)
  \/ \E r \in Slots, thrown \in BOOLEAN : HomegrownSignReturns(r, thrown)

Spec == Init /\ [][Next]_vars

\* The login handlers alone, of the MFA servers and of the servers without
\* MFA.
NextLogin ==
  \/ \E r \in Slots, email \in Identities(server), password \in Passwords :
        LoginRequest(r, email, password)
  \/ \E r \in Slots, response \in StartAnswers : LoginStartReturns(r, response)
  \/ \E r \in Slots, username \in Identities(server), password \in Passwords :
        HomegrownLoginRequest(r, username, password)
  \/ \E r \in Slots, thrown \in BOOLEAN : HomegrownSignReturns(r, thrown)

SpecLogin == Init /\ [][NextLogin]_vars

\* The MFA servers with the provider configured: logins and callbacks.
InitMFA ==
  /\ Init
  /\ server \in MFAServers
  /\ ~ConfigMissing(server, env)

NextMFA ==
  \/ \E r \in Slots, email \in Identities(server), password \in Passwords :
        LoginRequest(r, email, password)
  \/ \E r \in Slots, response \in StartAnswers : LoginStartReturns(r, response)
  \/ \E r \in Slots, code \in Codes, error \in Errors : CallbackRequest(r, code, error)
  \/ \E r \in Slots, tokenResponse \in ExchangeAnswers :
        CallbackExchangeReturns(r, tokenResponse)
  \/ \E r \in Slots, sessionValidation \in ValidateAnswers :
        CallbackValidateReturns(r, sessionValidation)
  \/ \E r \in Slots, thrown \in BOOLEAN : CallbackSignReturns(r, thrown)

SpecMFA == InitMFA /\ [][NextMFA]_vars

\* The MFA servers with the provider configured, under concurrent logins,
\* callbacks and guarded requests.
NextConcurrent ==
  \/ \E r \in Slots, password \in Passwords :
        LoginRequest(r, SeededIdentity(server), password)
  \/ \E r \in Slots, response \in StartAnswers : LoginStartReturns(r, response)
  \/ \E r \in Slots : CallbackRequest(r, "validcode123", Undefined)
  \/ \E r \in Slots, tokenResponse \in ExchangeAnswers :
        CallbackExchangeReturns(r, tokenResponse)
  \/ \E r \in Slots, sessionValidation \in ValidateAnswers :
        CallbackValidateReturns(r, sessionValidation)
  \/ \E r \in Slots, thrown \in BOOLEAN : CallbackSignReturns(r, thrown)
  \/ \E r \in Slots, route \in {"me", "protected"}, authorization \in Headers :
        GuardRequest(r, route, authorization)
  \/ \E r \in Slots, outcome \in {"payload", "JWSInvalid", "JWSSignatureVerificationFailed",
                                  "JWTExpired", "KeyRejected"} :
        GuardVerifyReturns(r, outcome)

SpecConcurrent == InitMFA /\ [][NextConcurrent]_vars

\* The servers with their guard and a clock: tokens are issued by completed
\* callbacks (or, without MFA, logins) and presented to the guarded routes.
InitGuard ==
  /\ Init
  /\ server \in MFAServers => ~ConfigMissing(server, env)
  \* authenticateToken and the callback of src/server.ts are those of
  \* api/index.ts, statement for statement
  /\ server # "express"

NextGuard ==
  \/ \E r \in Slots : CallbackRequest(r, "validcode123", Undefined)
  \/ \E r \in Slots, tokenResponse \in ExchangeAnswers :
        CallbackExchangeReturns(r, tokenResponse)
  \/ \E r \in Slots, sessionValidation \in {NoUserInfo, ProviderSession} :
        CallbackValidateReturns(r, sessionValidation)
  \/ \E r \in Slots, thrown \in BOOLEAN : CallbackSignReturns(r, thrown)
  \/ \E r \in Slots : HomegrownLoginRequest(r, "testuser", "password")
  \/ \E r \in Slots, thrown \in BOOLEAN : HomegrownSignReturns(r, thrown)
  \/ \E r \in Slots, route \in {"me", "protected", "middleware"}, authorization \in Headers :
        GuardRequest(r, route, authorization)
  \/ \E r \in Slots, outcome \in {"payload", "JWSInvalid", "JWSSignatureVerificationFailed",
                                  "JWTExpired", "KeyRejected"} :
        GuardVerifyReturns(r, outcome)
  \/ \E t \in Times : Tick(t)

SpecGuard == InitGuard /\ [][NextGuard]_vars

\* The guard alone, under Authorization headers of several shapes: no
\* header, one field (a scheme word, or the text of a token with no scheme
\* before it), and a scheme word followed by a token.
SchemeWords == {"Bearer", "Basic"}

SchemeTokens ==
  { IssuedEarlier, SignCallbackJWT("U1", "test@example.com", AttackerKey, TTL + 1) }

SchemeHeaders ==
  { << >>, <<"Bearer">>, <<"Basic">>, <<"eyJhbGciOiJIUzI1NiJ9.e30.c2ln">> }
    \cup { <<w, t>> : w \in SchemeWords, t \in SchemeTokens }

NextScheme ==
  \/ \E r \in Slots, route \in {"me", "protected", "middleware"},
        authorization \in SchemeHeaders :
        GuardRequest(r, route, authorization)
  \/ \E r \in Slots, outcome \in {"payload", "JWSInvalid", "JWSSignatureVerificationFailed",
                                  "JWTExpired", "KeyRejected"} :
        GuardVerifyReturns(r, outcome)

SpecScheme == InitGuard /\ [][NextScheme]_vars

\* The MFA servers, configured or not, under logins, callbacks and guarded
\* requests, where every call a handler awaits returns or raises: a pending
\* oauth.start, oauth.exchange, validateSession, sign or jwtVerify of a
\* request is answered.
LiveHeaders == { << >>, <<"Bearer", IssuedEarlier>>, <<"Bearer", Malformed>> }

NextLive ==
  \/ \E r \in Slots, password \in Passwords :
        LoginRequest(r, SeededIdentity(server), password)
  \/ \E r \in Slots, response \in StartAnswers : LoginStartReturns(r, response)
  \/ \E r \in Slots, code \in {Undefined, "validcode123"} : CallbackRequest(r, code, Undefined)
  \/ \E r \in Slots, tokenResponse \in ExchangeAnswers :
        CallbackExchangeReturns(r, tokenResponse)
  \/ \E r \in Slots, sessionValidation \in {NoUserInfo, ProviderSession} :
        CallbackValidateReturns(r, sessionValidation)
  \/ \E r \in Slots, thrown \in BOOLEAN : CallbackSignReturns(r, thrown)
  \/ \E r \in Slots, route \in {"me", "protected"}, authorization \in LiveHeaders :
        GuardRequest(r, route, authorization)
  \/ \E r \in Slots, outcome \in {"payload", "JWSInvalid", "JWSSignatureVerificationFailed",
                                  "JWTExpired", "KeyRejected"} :
        GuardVerifyReturns(r, outcome)

\* the call that request r awaits returns or raises (a request awaits at
\* most one call at a time)
CallReturns(r) ==
  \/ \E response \in StartAnswers : LoginStartReturns(r, response)
  \/ \E tokenResponse \in ExchangeAnswers : CallbackExchangeReturns(r, tokenResponse)
  \/ \E sessionValidation \in {NoUserInfo, ProviderSession} :
        CallbackValidateReturns(r, sessionValidation)
  \/ \E thrown \in BOOLEAN : CallbackSignReturns(r, thrown)
  \/ \E outcome \in {"payload", "JWSInvalid", "JWSSignatureVerificationFailed",
                     "JWTExpired", "KeyRejected"} :
        GuardVerifyReturns(r, outcome)

EveryCallReturns == \A r \in Slots : WF_vars(CallReturns(r))

\* the serverless server; an unset secret on a build that takes a
\* zero-length key behaves as a set one
InitLive ==
  /\ Init
  /\ server = "api"
  /\ Truthy(env.JWT_SECRET) \/ ~zeroKeyOk

SpecLive == InitLive /\ [][NextLive]_vars /\ EveryCallReturns

\* The auth router of homegrown-auth-server-after with its guard and a
\* clock: tokens of its POST /login, and tokens with the claims the MFA
\* callback mints, signed with the secret of the router.
CallbackShaped == SignCallbackJWT("U1", "test@example.com", SecretKey(env), 0)

RouterHeaders ==
  { <<"Bearer", t>> :
      t \in { req[q].res.token : q \in {p \in Slots : req[p].res.token # NoToken} }
              \cup {IssuedEarlier, CallbackShaped} }

InitRouter == Init /\ server = "router"

NextRouter ==
  \/ \E r \in Slots, password \in Passwords : HomegrownLoginRequest(r, "testuser", password)
  \/ \E r \in Slots, thrown \in BOOLEAN : HomegrownSignReturns(r, thrown)
  \/ \E r \in Slots, route \in {"me", "middleware"}, authorization \in RouterHeaders :
        GuardRequest(r, route, authorization)
  \/ \E r \in Slots, outcome \in {"payload", "JWSInvalid", "JWSSignatureVerificationFailed",
                                  "JWTExpired", "KeyRejected"} :
        GuardVerifyReturns(r, outcome)
  \/ \E t \in Times : Tick(t)

SpecRouter == InitRouter /\ [][NextRouter]_vars

\* The MFA servers against a provider whose authorization codes are
\* single-use: oauth.exchange answers ok for a code at most once.
ReplayCodes == {"validcode123", "validcode456"}

\* the provider has redeemed the code: an exchange of it was answered ok
Redeemed(code) ==
  \E q \in Slots :
    /\ req[q].kind = "callback"
    /\ req[q].pc # "exchange"
    /\ req[q].code = code
    /\ ~req[q].tokenResponse.thrown
    /\ req[q].tokenResponse.ok

CallbackExchangeReturnsOnce(r, tokenResponse) ==
  /\ req[r].kind = "callback"
  /\ (~tokenResponse.thrown /\ tokenResponse.ok) => ~Redeemed(req[r].code)
  /\ CallbackExchangeReturns(r, tokenResponse)

InitReplay == Init /\ server \in MFAServers

NextReplay ==
  \/ \E r \in Slots, code \in ReplayCodes : CallbackRequest(r, code, Undefined)
  \/ \E r \in Slots, tokenResponse \in ExchangeAnswers :
        CallbackExchangeReturnsOnce(r, tokenResponse)
  \/ \E r \in Slots, sessionValidation \in ValidateAnswers :
        CallbackValidateReturns(r, sessionValidation)
  \/ \E r \in Slots, thrown \in BOOLEAN : CallbackSignReturns(r, thrown)

SpecReplay == InitReplay /\ [][NextReplay]_vars

(* ------------------------------------------------------------------------ *)
(* Properties                                                               *)
(* ------------------------------------------------------------------------ *)

MFA == server \in MFAServers

\* request r created or returned a session token
Minted(r) == req[r].userToken # NoToken \/ req[r].res.token # NoToken

\* request r has ended with a response
Done(r) == req[r].pc = "done"

\* request r is a callback that got an answer from oauth.exchange
Exchanged(r) ==
  /\ req[r].kind = "callback"
  /\ Len(req[r].calls) >= 1
  /\ req[r].pc # "exchange"

\* request r is a callback that got an answer from validateSession
Validated(r) ==
  /\ req[r].kind = "callback"
  /\ Len(req[r].calls) = 2
  /\ req[r].pc \notin {"exchange", "validate"}

\* C1: in the MFA server a session token is minted only inside a callback
\* request whose oauth.exchange returned ok with a provider session token and
\* whose validateSession, called on that same provider session token,
\* succeeded.
C1_TokenOnlyAfterExchangeAndValidate ==
  MFA => \A r \in Slots :
    Minted(r) =>
      /\ req[r].kind = "callback"
      /\ ~req[r].tokenResponse.thrown
      /\ req[r].tokenResponse.ok
      /\ Truthy(req[r].tokenResponse.data)
      /\ req[r].calls = << Call("oauth.exchange", req[r].code),
                           Call("validateSession", req[r].tokenResponse.data) >>
      /\ ~req[r].sessionValidation.thrown
      /\ req[r].sessionValidation.truthy

C1_Witness ==
  MFA /\ \E r \in Slots : Minted(r) /\ req[r].res.status = 200

\* C2: in the MFA server no session token is produced unless a
\* POST /api/auth/login was accepted by the credential check before.
C2_NoTokenWithoutAcceptedLogin ==
  MFA => ((\E r \in Slots : Minted(r)) => gateAccepted)

\* C3: in the MFA server a login request never signs or returns a session
\* token, and its successful response carries only the redirect URL.
C3_LoginReturnsOnlyRedirectUrl ==
  MFA => \A r \in Slots :
    req[r].kind = "login" =>
      /\ ~Minted(r)
      /\ (Done(r) /\ req[r].res.status = 200) =>
            /\ req[r].res.redirectUrl # Undefined
            /\ req[r].res.message = Undefined
            /\ req[r].res.user = NoUser

C3_Witness ==
  MFA /\ \E r \in Slots :
    req[r].kind = "login" /\ Done(r) /\ req[r].res.status = 200

\* request r was rejected with status 400 at once: no provider call, no token
RejectedAtOnce(r) ==
  /\ Done(r)
  /\ req[r].res.status = 400
  /\ req[r].calls = << >>
  /\ ~Minted(r)

\* C4 (as stated): a callback whose query has an error parameter present is
\* rejected with status 400 at once, without a call of oauth.exchange or
\* validateSession and without a token, with or without a code.
C4_ErrorPresentRejected ==
  \A r \in Slots :
    (req[r].kind = "callback" /\ req[r].error # Undefined) => RejectedAtOnce(r)

\* C4 (amended): a callback whose query has a non-empty error parameter is
\* rejected with status 400 at once, without a call of oauth.exchange or
\* validateSession and without a token, with or without a code.
C4_NonEmptyErrorRejected ==
  \A r \in Slots :
    (req[r].kind = "callback" /\ Truthy(req[r].error)) =>
      /\ RejectedAtOnce(r)
      /\ req[r].res.message = "Authentication failed: " \o Str(req[r].error)

C4_Witness ==
  \E r \in Slots :
    /\ req[r].kind = "callback"
    /\ Truthy(req[r].error)
    /\ req[r].code = "validcode123"
    /\ Done(r)

\* C5: a callback with neither an error nor a string code is rejected with
\* status 400 and the message 'No authorization code provided', without a
\* provider call and without a token; a provider-reported error has the same
\* status and a different message.
C5_MissingCodeRejected ==
  \A r \in Slots :
    (/\ req[r].kind = "callback"
     /\ ~Truthy(req[r].error)
     /\ (~IsString(req[r].code) \/ req[r].code = "")) =>
      /\ RejectedAtOnce(r)
      /\ req[r].res.message = "No authorization code provided"
      /\ \A q \in Slots :
           (req[q].kind = "callback" /\ Truthy(req[q].error)) =>
             /\ req[q].res.status = req[r].res.status
             /\ req[q].res.message # req[r].res.message

C5_Witness ==
  \E r, q \in Slots :
    /\ req[r].kind = "callback" /\ req[r].error = Undefined
    /\ req[r].code = NonString /\ Done(r)
    /\ req[q].kind = "callback" /\ Truthy(req[q].error) /\ Done(q)

\* C6: when oauth.exchange reports a failure for the callback's code, the
\* callback responds 401, does not call validateSession and mints no token.
C6_ExchangeFailureIs401 ==
  \A r \in Slots :
    (/\ Exchanged(r)
     /\ ~req[r].tokenResponse.thrown
     /\ ~req[r].tokenResponse.ok) =>
      /\ Done(r)
      /\ req[r].res.status = 401
      /\ req[r].calls = << Call("oauth.exchange", req[r].code) >>
      /\ ~Minted(r)

C6_Witness ==
  \E r \in Slots :
    Exchanged(r) /\ ~req[r].tokenResponse.thrown /\ ~req[r].tokenResponse.ok

\* C7: when validateSession reports the provider session invalid, by a falsy
\* result or by raising an error, the callback responds 401 and mints no
\* token.
C7_ValidationFailureIs401 ==
  \A r \in Slots :
    (/\ Validated(r)
     /\ (req[r].sessionValidation.thrown \/ ~req[r].sessionValidation.truthy)) =>
      /\ Done(r)
      /\ req[r].res.status = 401
      /\ ~Minted(r)

\* the provider configuration the login handler of this server asks for
ProviderConfigured ==
  /\ Truthy(env.DESCOPE_PROJECT_ID)
  /\ (server = "express" => Truthy(env.DESCOPE_MANAGEMENT_KEY))

\* oauth.start answered request r with a redirect URL
StartSucceeded(r) ==
  /\ req[r].calls = << Call("oauth.start", env.DESCOPE_REDIRECT_URL) >>
  /\ ~req[r].response.thrown
  /\ req[r].response.ok
  /\ Truthy(req[r].response.data)

\* C8: POST /api/auth/login of the MFA server ends in exactly one of three
\* outcomes: 200 with a redirectUrl when the secret is accepted and the
\* provider start succeeds; 401 'Invalid credentials' when the secret is
\* rejected; 500 when the secret is accepted but the provider configuration
\* is missing or oauth.start fails or returns no url.
C8_LoginThreeOutcomes ==
  MFA => \A r \in Slots :
    (req[r].kind = "login" /\ Done(r)) =>
      LET accepted == req[r].password = "password"
          res == req[r].res
      IN  /\ res.status \in {200, 401, 500}
          /\ (res.status = 200) <=>
               (accepted /\ ProviderConfigured /\ StartSucceeded(r))
          /\ (res.status = 200) => Truthy(res.redirectUrl)
          /\ (res.status = 401) <=> ~accepted
          /\ (res.status = 401) => res.message = "Invalid credentials"
          /\ (res.status = 500) <=>
               (accepted /\ (~ProviderConfigured \/ ~StartSucceeded(r)))

C8_Witness ==
  MFA /\ \E r, q \in Slots :
    /\ req[r].kind = "login" /\ Done(r) /\ req[r].res.status = 500
    /\ req[r].calls # << >>
    /\ req[q].kind = "login" /\ Done(q) /\ req[q].res.status = 200

\* request r was rejected by the credential check: 401 and no provider call
RejectedByGate(r) ==
  /\ Done(r)
  /\ req[r].res.status = 401
  /\ req[r].calls = << >>

\* C9 (as stated): in the MFA server every login whose identity is not the
\* seeded identity, or whose secret is not the configured secret, is answered
\* 401 and does not start the provider flow.
C9_UnknownIdentityOrWrongSecretRejected ==
  MFA => \A r \in Slots :
    (/\ req[r].kind = "login"
     /\ (req[r].identity # SeededIdentity(server) \/ req[r].password # "password")) =>
      RejectedByGate(r)

\* C9 (amended): in the MFA server every login whose secret is not the
\* configured secret is answered 401 and does not start the provider flow,
\* whatever its identity.
C9_WrongSecretRejected ==
  MFA => \A r \in Slots :
    (req[r].kind = "login" /\ req[r].password # "password") => RejectedByGate(r)

C9_Witness ==
  MFA /\ \E r, q \in Slots :
    /\ req[r].kind = "login" /\ req[r].password # "password"
    /\ req[r].identity = SeededIdentity(server)
    /\ req[q].kind = "login" /\ req[q].password # "password"
    /\ req[q].identity # SeededIdentity(server)

\* C10: in every login handler, the rejection of a request with an unknown
\* identity and the rejection of a request with the known identity and a
\* wrong secret are the same response: status 401 and the same body.
C10_SameRejection ==
  \A r, q \in Slots :
    (/\ req[r].kind = "login" /\ Done(r)
     /\ req[r].identity # SeededIdentity(server)
     /\ req[r].res.status = 401
     /\ req[q].kind = "login"
     /\ req[q].identity = SeededIdentity(server)
     /\ req[q].password # "password") =>
      /\ Done(q)
      /\ req[q].res = req[r].res

C10_Witness ==
  \E r, q \in Slots :
    /\ server \in HomegrownServers
    /\ req[r].kind = "login" /\ Done(r)
    /\ req[r].identity # SeededIdentity(server)
    /\ req[r].password = "password"
    /\ req[r].res.status = 401
    /\ req[q].kind = "login" /\ Done(q)
    /\ req[q].identity = SeededIdentity(server)
    /\ req[q].password # "password"

\* request r is a guard request that presented token tok
Presented(r) == HeaderToken(req[r].authorization)

\* token tok was issued by a callback of this run
IssuedByCallback(tok) ==
  \E q \in Slots : req[q].kind = "callback" /\ tok # NoToken /\ req[q].userToken = tok

\* the guard answers request r in this step
GuardAnswers(r) ==
  /\ req[r].kind = "guard"
  /\ req[r].pc = "verify"
  /\ req'[r].pc # "verify"

\* the guard let request r through to its handler, with the claims of tok
Accepted(slot, tok) ==
  /\ slot.next
  /\ slot.jwt = "payload"
  /\ slot.user = Payload(tok)
  /\ slot.res.status = 200

\* the guard answered 401 and the handler did not run
Refused(slot) ==
  /\ slot.pc = "done"
  /\ ~slot.next
  /\ slot.user = NoPayload
  /\ slot.res.status = 401
  /\ slot.res.user = NoUser
  /\ slot.res.payload = NoPayload

\* C11: a token the callback issues expires one hour (3600 s) after its
\* issue; presented to the guard of the same server (same secret) it verifies
\* and yields the claims it was issued with at every time before that, and
\* is answered 401 at every time from then on.
C11_IssueVerifyRoundTrip ==
  [][ \A r \in Slots :
        /\ (req[r].kind = "callback" /\ req[r].userToken = NoToken
              /\ req'[r].userToken # NoToken) =>
             /\ req'[r].userToken.exp = now + 3600
             /\ req'[r].userToken.sub = SubjectOf(req[r].sessionValidation)
             /\ req'[r].userToken.email = EmailOf(req[r].sessionValidation)
        /\ (MFA /\ GuardAnswers(r) /\ IssuedByCallback(Presented(r))) =>
             IF now < Presented(r).exp
             THEN Accepted(req'[r], Presented(r))
             ELSE Refused(req'[r]) ]_vars

C11_Witness ==
  \E r, q \in Slots :
    /\ req[q].kind = "callback" /\ req[q].userToken # NoToken
    /\ req[r].kind = "guard" /\ Presented(r) = req[q].userToken
    /\ req[r].jwt = "JWTExpired"
    /\ now = req[q].userToken.exp

\* the guard has answered request r
GuardAnswered(r) == req[r].kind = "guard" /\ req[r].pc # "verify"

\* C12: a token signed under one secret is refused by the guard of a server
\* that runs with a different secret: 401, and the protected handler does
\* not run.
C12_OtherSecretRefused ==
  \A r \in Slots :
    (/\ GuardAnswered(r)
     /\ Presented(r).alg = "HS256"
     /\ Presented(r).key # SecretKey(env)) => Refused(req[r])

C12_Witness ==
  \E r \in Slots :
    /\ GuardAnswered(r)
    /\ Presented(r).alg = "HS256"
    /\ Presented(r).key = AttackerKey
    /\ Presented(r).exp > now
    /\ req[r].jwt = "JWSSignatureVerificationFailed"

\* C13: with JWT_SECRET unset or empty no token signed with the empty secret
\* is ever produced, and the guard never accepts a token verified against
\* the empty secret.
C13_NoEmptySecretToken ==
  \A r \in Slots :
    /\ Minted(r) => (req[r].userToken.key # "" /\ req[r].res.token.key # "")
    /\ (GuardAnswered(r) /\ req[r].next) => SecretKey(env) # ""

\* C14: the handlers of GET /api/auth/me and GET /api/protected run only for
\* a request whose Authorization header carried a token that verified; a
\* request without a token, or with a token that fails verification, is
\* answered 401 and the handler is not reached; on success the verified
\* claims are attached to the request before the handler runs.
C14_GuardBeforeHandler ==
  server # "router" => \A r \in Slots :
    req[r].kind = "guard" =>
      /\ req[r].pc \in {"verify", "done"}
      /\ req[r].pc = "verify" => (~req[r].next /\ req[r].res = NoResponseYet)
      /\ (req[r].next \/ req[r].res.status \notin {0, 401}) =>
            /\ Presented(r) # NoToken
            /\ Presented(r).alg = "HS256"
            /\ Presented(r).key = SecretKey(env)
            /\ Accepted(req[r], Presented(r))
            /\ (req[r].route = "protected" => req[r].res.payload = Payload(Presented(r)))
      /\ Presented(r) = NoToken =>
            (Refused(req[r]) /\ req[r].res.message = "No token provided")
      /\ (GuardAnswered(r) /\ Presented(r) # NoToken /\ req[r].jwt # "payload") =>
            Refused(req[r])

C14_Witness ==
  \E r, q \in Slots :
    /\ server = "api"
    /\ req[r].kind = "guard" /\ req[r].route = "protected"
    /\ req[r].next /\ req[r].res.status = 200
    /\ req[q].kind = "guard" /\ req[q].pc = "done"
    /\ Presented(q) = Malformed

\* C15: the guard's response to an expired, well-formed token is the same
\* (status and body) as its response to a malformed or wrongly signed token.
C15_ExpiredLikeInvalid ==
  \A r, q \in Slots :
    (/\ GuardAnswered(r) /\ req[r].jwt = "JWTExpired"
     /\ GuardAnswered(q)
     /\ req[q].jwt \in {"JWSInvalid", "JWSSignatureVerificationFailed"}) =>
      /\ req[r].res.status = 401
      /\ req[r].res = req[q].res

C15_Witness ==
  \E r, q \in Slots :
    /\ GuardAnswered(r) /\ req[r].jwt = "JWTExpired"
    /\ Presented(r).alg = "HS256" /\ Presented(r).key = SecretKey(env)
    /\ GuardAnswered(q) /\ req[q].jwt = "JWSInvalid"
    /\ Presented(q) = Malformed

\* request r is a callback whose exchange and validate both succeeded and
\* that has answered
BothSucceeded(r) ==
  /\ Validated(r)
  /\ Done(r)
  /\ ~req[r].sessionValidation.thrown
  /\ req[r].sessionValidation.truthy

\* the response of request r carries a token issued in request r, whose
\* subject is the userId validateSession reported, else the sub it reported,
\* and whose email is the email it reported
CarriesProviderClaims(r) ==
  LET userInfo == req[r].sessionValidation
      token == req[r].res.token
  IN  /\ req[r].res.status = 200
      /\ token # NoToken
      /\ token = req[r].userToken
      /\ token.alg = "HS256"
      /\ token.exp = now + 3600
      /\ token.sub = (IF userInfo.userId \notin {Undefined, ""} THEN userInfo.userId
                      ELSE IF userInfo.sub \notin {Undefined, ""} THEN userInfo.sub
                      ELSE "")
      /\ token.email = (IF userInfo.email \notin {Undefined, ""} THEN userInfo.email
                        ELSE "")

C17_CodeMintsAtMostOnce ==
  \A r, q \in Slots :
    (/\ r # q
     /\ req[r].kind = "callback" /\ req[q].kind = "callback"
     /\ req[r].code = req[q].code
     /\ Minted(r)) =>
      /\ ~Minted(q)
      /\ Done(q) => req[q].res.status \in {401, 500}
      /\ Exchanged(q) =>
           (Done(q) /\ req[q].calls = << Call("oauth.exchange", req[q].code) >>)

C17_Witness ==
  \E r, q \in Slots :
    /\ r < q
    /\ req[r].kind = "callback" /\ req[q].kind = "callback"
    /\ req[r].code = req[q].code
    /\ Minted(r) /\ req[r].res.status = 200
    /\ Done(q) /\ req[q].res.status = 401 /\ ~Minted(q)
    /\ req[q].tokenResponse = SdkResponse(FALSE, FALSE, Undefined)

\* request slot has not called a provider operation twice
CalledOnce(slot) ==
  \A i, j \in 1..Len(slot.calls) : i # j => slot.calls[i].op # slot.calls[j].op

\* request slot ended with an error response and without a token
EndedInError(slot) ==
  /\ slot.pc = "done"
  /\ slot.res.status \in {401, 500}
  /\ slot.res.redirectUrl = Undefined
  /\ slot.userToken = NoToken /\ slot.res.token = NoToken

\* a step of request slot failed: the credential check, the provider
\* configuration or oauth.start of a login; oauth.exchange or
\* validateSession of a callback
StepFailed(slot) ==
  \/ /\ slot.kind = "login" /\ MFA
     /\ slot.pc # "start"
     /\ ~(/\ slot.calls # << >>
          /\ ~slot.response.thrown /\ slot.response.ok
          /\ slot.response.data \notin {Undefined, ""})
  \/ /\ slot.kind = "callback"
     /\ slot.calls # << >> /\ slot.pc # "exchange"
     /\ ~(/\ ~slot.tokenResponse.thrown /\ slot.tokenResponse.ok
          /\ slot.tokenResponse.data \notin {Undefined, ""})
  \/ /\ slot.kind = "callback"
     /\ Len(slot.calls) = 2 /\ slot.pc # "validate"
     /\ (slot.sessionValidation.thrown \/ ~slot.sessionValidation.truthy)

\* C18: no step is retried inside the server: a login request calls
\* oauth.start at most once, a callback request calls oauth.exchange and
\* validateSession at most once each; after a step failed the request has
\* ended with an error response, and a request that has ended does nothing
\* more: another attempt is another request.
C18_NoInternalRetry ==
  [][ \A r \in Slots :
        req'[r] # req[r] =>
          /\ ~Done(r)
          /\ CalledOnce(req'[r])
          /\ StepFailed(req'[r]) =>
               (EndedInError(req'[r]) /\ Len(req'[r].calls) = Len(req[r].calls)) ]_vars

C18_Witness ==
  \E r, q \in Slots :
    /\ r < q
    /\ req[r].kind = "callback" /\ Done(r)
    /\ req[r].tokenResponse = SdkResponse(FALSE, FALSE, Undefined)
    /\ req[r].res.status = 401
    /\ req[q].kind = "callback" /\ req[q].code = req[r].code
    /\ req[q].calls = << Call("oauth.exchange", req[q].code) >>

\* request r is a callback that ended because oauth.exchange failed
ExchangeFailed(r) ==
  /\ Exchanged(r) /\ Done(r)
  /\ (req[r].tokenResponse.thrown \/ ~req[r].tokenResponse.ok)

\* request r is a callback that ended because validateSession failed
ValidationFailed(r) ==
  /\ Validated(r) /\ Done(r)
  /\ (req[r].sessionValidation.thrown \/ ~req[r].sessionValidation.truthy)

\* C19: the response to a callback whose exchange failed and the response to
\* a callback whose validation failed do not reveal which step failed: they
\* are the same generic authentication failure.
C19_FailedStepNotRevealed ==
  \A r, q \in Slots :
    (ExchangeFailed(r) /\ ValidationFailed(q)) => req[r].res = req[q].res

\* C20: on an accepted login of the MFA server the returned redirectUrl is
\* non-empty and is the provider's authorization URL followed by a
\* login_hint parameter whose value is the contact address submitted with
\* the login.
C20_RedirectUrlCarriesLoginHint ==
  MFA => \A r \in Slots :
    (req[r].kind = "login" /\ Done(r) /\ req[r].res.status = 200) =>
      /\ req[r].password = "password"
      /\ req[r].res.redirectUrl \notin {Undefined, ""}
      /\ req[r].res.redirectUrl =
           req[r].response.data \o "&login_hint=" \o req[r].identity
      /\ req[r].response.data = AuthUrl

C20_Witness ==
  MFA /\ \E r, q \in Slots :
    /\ req[r].kind = "login" /\ Done(r) /\ req[r].res.status = 200
    /\ req[r].identity = SeededIdentity(server)
    /\ req[r].res.redirectUrl = AuthUrl \o "&login_hint=test@example.com"
    /\ req[q].kind = "login" /\ Done(q) /\ req[q].res.status = 200
    /\ req[q].identity # req[r].identity

\* C21: the return address passed to oauth.start is the server-configured
\* DESCOPE_REDIRECT_URL for every login request, whatever the request
\* carries.
C21_FixedReturnAddress ==
  \A r \in Slots :
    (req[r].kind = "login" /\ req[r].calls # << >>) =>
      /\ Len(req[r].calls) = 1
      /\ req[r].calls[1].op = "oauth.start"
      /\ req[r].calls[1].arg = "http://localhost:3000/api/auth/callback"
      /\ req[r].calls[1].arg = env.DESCOPE_REDIRECT_URL

C21_Witness ==
  \E r, q \in Slots :
    /\ req[r].kind = "login" /\ req[q].kind = "login"
    /\ req[r].identity # req[q].identity
    /\ req[r].calls # << >> /\ req[q].calls = req[r].calls

\* C22: when the provider project identifier is not configured, a login of
\* the MFA server with an accepted first factor fails with status 500 and
\* oauth.start is never called.
C22_MissingProjectIdIs500 ==
  (MFA /\ env.DESCOPE_PROJECT_ID \in {Undefined, ""}) =>
    \A r \in Slots :
      (req[r].kind = "login" /\ req[r].password = "password") =>
        /\ Done(r)
        /\ req[r].res.status = 500
        /\ req[r].res.redirectUrl = Undefined
        /\ req[r].calls = << >>
        /\ ~Minted(r)

C22_Witness ==
  /\ MFA /\ env.DESCOPE_PROJECT_ID = Undefined
  /\ \E r \in Slots :
       /\ req[r].kind = "login" /\ req[r].password = "password"
       /\ req[r].res = JsonMessage(500, "Error getting redirect URL")

\* request slot as its handler leaves it when it runs alone, with the
\* configuration of the server and the provider answers slot has received
Alone(slot) ==
  IF slot.kind = "login"
  THEN LET s0 == login(server, env, slot.identity, slot.password)
       IN  IF s0.pc = "start" /\ slot.pc # "start"
           THEN loginResume(s0, slot.response)
           ELSE s0
  ELSE IF slot.kind = "callback"
  THEN LET s0 == callback(slot.code, slot.error)
           s1 == IF s0.pc = "exchange" /\ slot.pc # "exchange"
                 THEN callbackExchanged(s0, slot.tokenResponse) ELSE s0
           s2 == IF s1.pc = "validate" /\ slot.pc # "validate"
                 THEN callbackValidated(s1, slot.sessionValidation) ELSE s1
       IN  IF s2.pc = "sign" /\ slot.pc # "sign"
           THEN callbackSigned(env, s2, SecretKey(env) = "" /\ ~zeroKeyOk, now)
           ELSE s2
  ELSE IF slot.kind = "guard"
  THEN LET s0 == authenticateToken(slot.route, slot.authorization)
       IN  IF s0.pc = "verify" /\ slot.pc # "verify"
           THEN authenticateTokenVerified(server, s0,
                  IF SecretKey(env) = "" /\ ~zeroKeyOk THEN "KeyRejected"
                  ELSE jwtVerify(HeaderToken(slot.authorization), SecretKey(env), now))
           ELSE s0
  ELSE IdleSlot

\* C23: handlers share no mutable server state: in every interleaving of
\* concurrent login, callback and guarded requests, suspended at their
\* provider calls, each request's state, response and minted token are those
\* of the same request run alone with the same configuration and the same
\* provider answers.
C23_RequestsIndependent ==
  \A r \in Slots : req[r] = Alone(req[r])

C23_Witness ==
  \E r, q \in Slots :
    /\ r < q
    /\ req[r].kind = "callback" /\ req[q].kind = "callback"
    /\ req[q].userToken # NoToken /\ req[q].userToken.sub = "U2"
    /\ req[r].pc = "validate"

\* C24: the auth router of homegrown-auth-server-after mints no token from
\* the first factor alone: its POST /login never returns a session token.
C24_RouterLoginMintsNoToken ==
  server = "router" =>
    \A r \in Slots : req[r].kind = "login" => ~Minted(r)

\* C25: in the server without MFA ('before') a login with any identity and
\* the password 'password' is accepted and answered with a token; the
\* identity does not influence acceptance.
C25_AnyIdentityAccepted ==
  server = "before" =>
    \A r \in Slots :
      (req[r].kind = "login" /\ req[r].password = "password" /\ Done(r)) =>
        (req[r].res.status = 200 /\ req[r].res.token # NoToken)

\* C29: in the MFA server oauth.start is invoked only after the credential
\* check accepted the request: a login with a rejected password is answered
\* 401 without a provider call, also when the provider configuration is
\* missing.
C29_StartOnlyAfterAcceptedPassword ==
  MFA => \A r \in Slots :
    req[r].kind = "login" =>
      /\ req[r].calls # << >> => req[r].password = "password"
      /\ req[r].password # "password" =>
           /\ req[r].res = JsonMessage(401, "Invalid credentials")
           /\ req[r].pc = "done"
           /\ req[r].calls = << >>

C29_Witness ==
  /\ MFA /\ env.DESCOPE_PROJECT_ID = Undefined
  /\ \E r, q \in Slots :
       /\ req[r].kind = "login" /\ req[r].password = "wrong"
       /\ req[r].res.status = 401
       /\ req[q].kind = "login" /\ req[q].password = "password"
       /\ req[q].res.status = 500

\* C30: when oauth.exchange reports ok but its data carries no refreshJwt,
\* the callback answers 401 'No session token received', does not call
\* validateSession and mints no token.
C30_NoRefreshJwtIs401 ==
  \A r \in Slots :
    (/\ req[r].kind = "callback"
     /\ req[r].calls # << >> /\ req[r].pc # "exchange"
     /\ ~req[r].tokenResponse.thrown
     /\ req[r].tokenResponse.ok
     /\ req[r].tokenResponse.data \in {Undefined, ""}) =>
      /\ req[r].pc = "done"
      /\ req[r].res = JsonMessage(401, "No session token received")
      /\ req[r].calls = << Call("oauth.exchange", req[r].code) >>
      /\ req[r].sessionValidation = NoUserInfo
      /\ req[r].userToken = NoToken /\ req[r].res.token = NoToken

C30_Witness ==
  \E r \in Slots :
    /\ req[r].kind = "callback"
    /\ req[r].tokenResponse = SdkResponse(FALSE, TRUE, Undefined)
    /\ req[r].res.message = "No session token received"

\* C26: whenever the protected page loads while localStorage holds no token
\* the page goes to the login page and sends no request to /auth/me; the
\* protected content is shown only after /auth/me answered ok for the
\* stored token.
C26_ProtectedPageNeedsToken ==
  [][ /\ (/\ browser.page = "protected" /\ browser.pc = "load"
          /\ browser.localStorage \in {Undefined, ""}) =>
           /\ browser'.fetch = NoFetch
           /\ browser'.pc # "me"
           /\ ~browser'.protectedContent
           /\ PageLoads => (browser'.page = "login" /\ browser'.pc = "load")
      /\ (browser'.protectedContent /\ ~browser.protectedContent) =>
           /\ browser.page = "protected" /\ browser'.page = "protected"
           /\ browser.pc = "me"
           /\ browser.localStorage \in StoredTokens
           /\ browser.fetch = Fetch("/auth/me", <<"Bearer", browser.localStorage>>)
           /\ ~browser'.response.failed
           /\ browser'.response.json
           /\ browser'.response.ok ]_vars

C26_Witness ==
  /\ browser.variant = "mfa"
  /\ browser.page = "login" /\ browser.referrer = "protected"
  /\ browser.pc = "idle"
  /\ browser.localStorage = Undefined
  /\ browser.fetch = NoFetch

\* fetchUserInfo took the token out of localStorage and went to the login
\* page
TokenRemoved ==
  /\ browser'.localStorage = Undefined
  /\ browser'.page = "login" /\ browser'.pc = "load"
  /\ ~browser'.protectedContent

\* fetchUserInfo left the token where it was and showed an error
TokenLeft ==
  /\ browser'.localStorage = browser.localStorage
  /\ browser'.page = browser.page /\ browser'.pc = "idle"
  /\ browser'.error = "An error occurred while fetching user info"
  /\ ~browser'.protectedContent

\* C27 (as stated): when /auth/me answers with a non-ok status for the
\* stored token, fetchUserInfo removes the token from localStorage and goes
\* to the login page; when the request itself fails the token is left in
\* localStorage and only an error is shown.
C27_NonOkRemovesToken ==
  [][ \A response \in MeAnswers :
        MeReturns(response) =>
          /\ (~response.failed /\ ~response.ok) => TokenRemoved
          /\ response.failed => TokenLeft ]_vars

\* C27 (amended): when /auth/me answers with a non-ok status and a JSON body
\* for the stored token, fetchUserInfo removes the token from localStorage
\* and goes to the login page; when the request itself fails, or the body of
\* the answer is not JSON, whatever its status, the token is left in
\* localStorage and only an error is shown.
C27_NonOkJsonRemovesToken ==
  [][ \A response \in MeAnswers :
        MeReturns(response) =>
          /\ (~response.failed /\ response.json /\ ~response.ok) => TokenRemoved
          /\ (response.failed \/ ~response.json) => TokenLeft ]_vars

C27_Witness ==
  /\ browser.page = "protected" /\ browser.pc = "idle"
  /\ ~browser.response.failed /\ ~browser.response.json /\ ~browser.response.ok
  /\ browser.response # NoFetchResponse \/ browser.error # Undefined
  /\ browser.localStorage \in StoredTokens
  /\ browser.error = "An error occurred while fetching user info"

\* C28: in the frontend with MFA, login() never writes a token to
\* localStorage: on an ok login response it only navigates to
\* data.redirectUrl, and with an empty email or password it sends no
\* request; a token enters localStorage only through the callback response
\* or the callback page.
C28_LoginStoresNoToken ==
  [][ browser.variant = "mfa" =>
        /\ \A email \in FormValues, password \in FormValues :
             SubmitLogin(email, password) =>
               /\ browser'.localStorage = browser.localStorage
               /\ (email = "" \/ password = "") =>
                    /\ browser'.fetch = browser.fetch
                    /\ browser'.pc = "idle"
                    /\ browser'.page = "login"
               /\ (email # "" /\ password # "") =>
                    /\ browser'.fetch = Fetch("/auth/login", << >>)
                    /\ browser'.pc = "login"
        /\ \A response \in LoginAnswers :
             ClientLoginReturns(response) =>
               /\ browser'.localStorage = browser.localStorage
               /\ (~response.failed /\ response.json /\ response.ok) =>
                    /\ browser'.page =
                         (IF response.redirectUrl = AuthUrl THEN "provider" ELSE "other")
                    /\ browser'.pc = "load"
        /\ (browser'.localStorage \in StoredTokens
              /\ browser'.localStorage # browser.localStorage) =>
             \/ CallbackResponse(browser'.localStorage)
             \/ /\ PageLoads
                /\ browser.page = "callback"
                /\ browser.query = browser'.localStorage ]_vars

\* the login response was ok and carried a token: the browser is on its way
\* to the provider and localStorage is still empty
C28_Witness ==
  /\ browser.variant = "mfa"
  /\ browser.page \in {"provider", "other"}
  /\ browser.referrer = "login"
  /\ browser.pc = "load"
  /\ browser.localStorage = Undefined

\* request r is a callback that minted a session token
MintedByCallback(r) ==
  /\ req[r].kind = "callback"
  /\ req[r].pc = "done"
  /\ req[r].res.token # NoToken

\* request l is a login that passed the first factor and got its redirect URL
PassedFirstFactor(l) ==
  /\ req[l].kind = "login"
  /\ req[l].pc = "done"
  /\ req[l].res.status = 200

\* C31: the claims of a minted session token depend only on the provider's
\* validate result: whatever email the logins of the run submitted, the
\* subject is the validate result's userId, else its sub, else '', and the
\* email is the validate result's email, else ''; two callbacks with the same
\* validate result mint the same subject and email claims.
C31_ClaimsDependOnlyOnValidate ==
  \A r \in Slots :
    MintedByCallback(r) =>
      LET v == req[r].sessionValidation
          tok == req[r].res.token
      IN  /\ tok.sub = (IF Truthy(v.userId) THEN v.userId
                        ELSE IF Truthy(v.sub) THEN v.sub ELSE "")
          /\ tok.email = (IF Truthy(v.email) THEN v.email ELSE "")
          /\ \A q \in Slots :
               (MintedByCallback(q) /\ req[q].sessionValidation = v) =>
                 /\ req[q].res.token.sub = tok.sub
                 /\ req[q].res.token.email = tok.email

\* a login with one email passed the first factor and the callback of the
\* same run minted a token for another email
C31_Witness ==
  \E l \in Slots, r \in Slots :
    /\ PassedFirstFactor(l)
    /\ req[l].identity = "mallory@example.com"
    /\ l < r
    /\ MintedByCallback(r)
    /\ req[r].sessionValidation = ProviderSession
    /\ req[r].res.token.email = "test@example.com"
    /\ req[r].res.token.sub = "U1"

\* C32: every session token minted by the callback carries a non-empty
\* subject claim: a validate result that has neither userId nor sub does not
\* lead to a minted token.
C32_MintedTokenHasSubject ==
  \A r \in Slots :
    MintedByCallback(r) =>
      /\ Truthy(req[r].res.token.sub)
      /\ Truthy(req[r].sessionValidation.userId) \/ Truthy(req[r].sessionValidation.sub)

\* request r passed the guard and its handler answered
PassedGuard(r) ==
  /\ req[r].kind = "guard"
  /\ req[r].pc = "done"
  /\ req[r].next

\* C33: GET /api/auth/me returns the same seeded user record for every
\* accepted token, whatever the subject and email claims of the token that
\* was presented, while GET /api/protected returns the presented token's own
\* claims.
C33_MeIgnoresTokenClaims ==
  \A r \in Slots :
    PassedGuard(r) =>
      LET tok == req[r].authorization[2]
      IN  /\ req[r].route = "me" =>
               /\ req[r].res.status = 200
               /\ req[r].res.user = [id |-> "1", username |-> "testuser",
                                     email |-> "test@example.com"]
               /\ req[r].res.payload = NoPayload
               /\ \A q \in Slots :
                    (PassedGuard(q) /\ req[q].route = "me") => req[q].res = req[r].res
          /\ req[r].route = "protected" =>
               /\ req[r].res.status = 200
               /\ req[r].res.user = NoUser
               /\ req[r].res.payload.sub = tok.sub
               /\ req[r].res.payload.email = tok.email
               /\ req[r].res.payload.exp = tok.exp

\* a token minted for U2 / mallory@example.com was accepted by GET /me, which
\* answered with the record of test@example.com
C33_Witness ==
  \E c \in Slots, r \in Slots :
    /\ MintedByCallback(c)
    /\ req[c].res.token.sub = "U2"
    /\ req[c].res.token.email = "mallory@example.com"
    /\ PassedGuard(r)
    /\ req[r].route = "me"
    /\ req[r].authorization = <<"Bearer", req[c].res.token>>
    /\ req[r].res.user.email = "test@example.com"

\* C34: the access guard takes the second space-separated field of the
\* Authorization header as the token without checking the scheme word: a
\* header with a valid token under any scheme is accepted, and a header with
\* a single field and no space is answered 401 'No token provided' without a
\* verification.
C34_SchemeWordNotChecked ==
  \A r \in Slots :
    (req[r].kind = "guard" /\ req[r].pc # "verify") =>
      LET h == req[r].authorization
      IN  /\ Len(h) < 2 =>
               /\ req[r].pc = "done"
               /\ req[r].res.status = 401
               /\ req[r].res.message = "No token provided"
               /\ ~req[r].next
               /\ req[r].jwt = "none"
          /\ (/\ Len(h) = 2
              /\ h[2].alg = "HS256"
              /\ h[2].key = (IF env.JWT_SECRET \in {Undefined, ""} THEN "" ELSE env.JWT_SECRET)
              /\ h[2].exp > now
              /\ (env.JWT_SECRET \in {Undefined, ""} => zeroKeyOk)) =>
               /\ req[r].next
               /\ req[r].jwt = "payload"
               /\ req[r].res.status # 401

\* a valid token under the scheme word Basic was let through, and a header
\* of one field was answered 401
C34_Witness ==
  \E r \in Slots, q \in Slots :
    /\ req[r].kind = "guard"
    /\ req[r].authorization = <<"Basic", IssuedEarlier>>
    /\ req[r].next
    /\ req[q].kind = "guard"
    /\ Len(req[q].authorization) = 1
    /\ req[q].res.status = 401

\* request slot as the handlers of MFA server srv leave it, with the
\* configuration of the run and the provider answers slot has received
OnVariant(srv, slot) ==
  IF slot.kind = "login"
  THEN LET s0 == login(srv, env, slot.identity, slot.password)
       IN  IF s0.pc = "start" /\ slot.pc # "start"
           THEN loginResume(s0, slot.response)
           ELSE s0
  ELSE IF slot.kind = "guard"
  THEN LET s0 == authenticateToken(slot.route, slot.authorization)
       IN  IF s0.pc = "verify" /\ slot.pc # "verify"
           THEN authenticateTokenVerified(srv, s0,
                  IF SecretKey(env) = "" /\ ~zeroKeyOk THEN "KeyRejected"
                  ELSE jwtVerify(HeaderToken(slot.authorization), SecretKey(env), now))
           ELSE s0
  ELSE Alone(slot)

\* C35: the serverless variant (api/index.ts) and the Express variant
\* (src/server.ts) are behaviourally equivalent: for every request,
\* configuration and provider answers they give the same response and make
\* the same provider calls, including when DESCOPE_MANAGEMENT_KEY is unset.
C35_VariantsEquivalent ==
  MFA =>
    \A r \in Slots :
      LET a == OnVariant("api", req[r])
          x == OnVariant("express", req[r])
      IN  /\ a.res = x.res
          /\ a.calls = x.calls
          /\ a.pc = x.pc

\* C36: every request to login, callback, /api/auth/me and /api/protected
\* eventually receives exactly one response, provided each provider call
\* returns or raises: a request has a response exactly when its handler has
\* ended, the response of an ended request never changes, and every request
\* that arrived ends.
C36_ExactlyOneResponse ==
  /\ [](\A r \in Slots :
          (req[r].res.status \in {200, 400, 401, 500}) <=> (req[r].pc = "done"))
  /\ [](\A r \in Slots : req[r].res.status \in {0, 200, 400, 401, 500})
  /\ [][\A r \in Slots : req[r].pc = "done" => req'[r] = req[r]]_vars
  /\ \A r \in Slots : (req[r].kind # "none") ~> (req[r].pc = "done")

\* a callback whose session was not valid and a guarded request have both
\* been answered
C36_Witness ==
  \E r \in Slots, q \in Slots :
    /\ req[r].kind = "callback" /\ req[r].pc = "done"
    /\ Len(req[r].calls) = 2
    /\ req[r].res = JsonMessage(401, "Invalid session")
    /\ req[q].kind = "guard" /\ req[q].pc = "done"
    /\ req[q].res.status = 200

\* token tok was issued by a POST /login of this run
IssuedByLogin(tok) ==
  \E q \in Slots : req[q].kind = "login" /\ tok # NoToken /\ req[q].res.token = tok

\* C37: in routes/auth.ts the guard and GET /me accept a correctly signed,
\* unexpired token only if its payload has truthy userId and username claims;
\* a verified token lacking either (one with only sub and email, as the MFA
\* callback mints) is answered 401 'Invalid token payload' and next() is not
\* called, while every token issued by the router's POST /login is accepted
\* until it expires.
C37_RouterNeedsUserIdAndUsername ==
  [][ \A r \in Slots :
        (server = "router" /\ GuardAnswers(r) /\ Len(req[r].authorization) >= 2) =>
          LET tok == req[r].authorization[2]
              secret == IF env.JWT_SECRET \in {Undefined, ""} THEN "" ELSE env.JWT_SECRET
              verified == /\ tok.alg = "HS256"
                          /\ tok.key = secret
                          /\ now < tok.exp
                          /\ secret = "" => zeroKeyOk
              named == /\ tok.userId \notin {Undefined, ""}
                       /\ tok.username \notin {Undefined, ""}
          IN  /\ req'[r].next <=> (verified /\ named)
              /\ (verified /\ named) =>
                   /\ req'[r].jwt = "payload"
                   /\ req'[r].res.status # 401
                   /\ req'[r].user.userId = tok.userId
                   /\ req'[r].user.username = tok.username
                   /\ req[r].route = "me" =>
                        /\ req'[r].res.status = 200
                        /\ req'[r].res.user.username = "testuser"
              /\ (verified /\ ~named) =>
                   /\ req'[r].pc = "done"
                   /\ req'[r].res.status = 401
                   /\ req'[r].res.message = "Invalid token payload"
              /\ (IssuedByLogin(tok) /\ now < tok.exp) => req'[r].next
              /\ (IssuedByLogin(tok) /\ now >= tok.exp) =>
                   /\ req'[r].res.status = 401
                   /\ req'[r].res.message = "Invalid token" ]_vars

\* a verified token with only sub and email was answered 401 'Invalid token
\* payload', and a token of the router's login was accepted
C37_Witness ==
  /\ server = "router"
  /\ \E r \in Slots, q \in Slots :
       /\ req[r].kind = "guard"
       /\ req[r].authorization = <<"Bearer", CallbackShaped>>
       /\ req[r].jwt = "payload"
       /\ ~req[r].next
       /\ req[r].res = JsonMessage(401, "Invalid token payload")
       /\ req[q].kind = "guard"
       /\ req[q].authorization[2].userId = "1"
       /\ req[q].authorization[2].username = "testuser"
       /\ req[q].next

====
